---- MODULE Spec2Model ----
(***************************************************************************)
(* Model of generate_sdl2_pxd.py: the translation of a pycparser AST of    *)
(* SDL2's headers into Cython declarations.                                 *)
(*                                                                          *)
(* An AST node is a record.  `name` is what getattr(n, "name", None) gives: *)
(* None is <<>>, a string s is <<s>>.  `kids` is the ordered list that      *)
(* n.children() yields (the members of a struct, the type of a declaration, *)
(* the enumerators of an enumerator list).                                  *)
(***************************************************************************)
EXTENDS Integers, Sequences, FiniteSets, TLC

VARIABLES pc, ext, idx, anonymous_serial, anonymous_names, stdout, call

vars == <<pc, ext, idx, anonymous_serial, anonymous_names, stdout, call>>

(* ------------------------------ bounds --------------------------------- *)

\* Most struct/union nodes in one generated declaration.
MaxAggs == 3
\* Most member declarations of one struct/union.
MaxDecls == 2
\* Most enumerators of one enum.
MaxEnum == 2
\* Most top-level nodes of a translation unit.
MaxExt == 2

(* --------------------------- configuration ----------------------------- *)

whitelist ==
  {"Sint8", "Uint8", "Sint16", "Uint16", "Sint32", "Uint32", "Sint64", "Uint64"}

blacklist == {"SDL_LogMessageV", "SDL_vsscanf", "SDL_vsnprintf"}

omit_cdef ==
  {"SDL_mutex", "SDL_cond", "SDL_Thread", "SDL_AudioCvt", "SDL_SysWMmsg",
   "SDL_Renderer", "SDL_Texture", "SDL_AudioCVT"}

(* ------------------------------ the AST -------------------------------- *)

None == <<>>

Some(s) == <<s>>

\* Python's truth value of an optional string: None and "" are false.
Truthy(name) == name # None /\ name[1] # ""

Node(kind, name, declname, names, quals, storage, kids) ==
  [kind |-> kind, name |-> name, declname |-> declname, names |-> names,
   quals |-> quals, storage |-> storage, kids |-> kids]

IdentifierType(names) == Node("IdentifierType", None, None, names, <<>>, <<>>, <<>>)

TypeDecl(declname, quals, type) ==
  Node("TypeDecl", None, declname, <<>>, quals, <<>>, <<type>>)

PtrDecl(quals, type) == Node("PtrDecl", None, None, <<>>, quals, <<>>, <<type>>)

Decl(name, quals, storage, type) ==
  Node("Decl", name, None, <<>>, quals, storage, <<type>>)

Typedef(name, quals, storage, type) ==
  Node("Typedef", name, None, <<>>, quals, storage, <<type>>)

Struct(name, decls) == Node("Struct", name, None, <<>>, <<>>, <<>>, decls)

Union(name, decls) == Node("Union", name, None, <<>>, <<>>, <<>>, decls)

Enumerator(name) == Node("Enumerator", Some(name), None, <<>>, <<>>, <<>>, <<>>)

EnumeratorList(enumerators) ==
  Node("EnumeratorList", None, None, <<>>, <<>>, <<>>, enumerators)

Enum(name, values) == Node("Enum", name, None, <<>>, <<>>, <<>>, <<values>>)

\* The node kinds that carry the attributes remove_modifiers looks for.
HasQuals(n) == n.kind \in {"Decl", "Typedef", "TypeDecl", "PtrDecl"}

HasStorage(n) == n.kind \in {"Decl", "Typedef"}

IsAggregate(n) == n.kind \in {"Struct", "Union"}

(* ---------------------------- name filter ------------------------------ *)

\* str.startswith
StartsWith(s, p) == Len(s) >= Len(p) /\ SubSeq(s, 1, Len(p)) = p

\* name_filter with the test against the blacklist left out.
name_filter_no_blacklist(name) ==
  IF name \in whitelist THEN TRUE
  ELSE IF StartsWith(name, "SDL_dummy") THEN FALSE
  ELSE IF StartsWith(name, "SDL_DUMMY") THEN FALSE
  ELSE IF StartsWith(name, "SDL") THEN TRUE
  ELSE FALSE

name_filter(name) ==
  IF name \in blacklist THEN FALSE
  ELSE IF name \in whitelist THEN TRUE
  ELSE IF StartsWith(name, "SDL_dummy") THEN FALSE
  ELSE IF StartsWith(name, "SDL_DUMMY") THEN FALSE
  ELSE IF StartsWith(name, "SDL") THEN TRUE
  ELSE FALSE

\* check_name that keeps searching below a named node the filter rejects.
RECURSIVE check_name_below_named(_)
check_name_below_named(n) ==
  \/ n.name # None /\ name_filter(n.name[1])
  \/ \E i \in 1..Len(n.kids) : check_name_below_named(n.kids[i])

RECURSIVE check_name(_)
check_name(n) ==
  IF n.name # None
    THEN name_filter(n.name[1])
    ELSE \E i \in 1..Len(n.kids) : check_name(n.kids[i])

(* ------------------------- textual rendering --------------------------- *)

\* ' '.join(l) followed by one space, or nothing for an empty list.
RECURSIVE JoinSp(_)
JoinSp(l) == IF l = <<>> THEN "" ELSE l[1] \o " " \o JoinSp(Tail(l))

\* ' '.join(l)
Join(l) == IF l = <<>> THEN "" ELSE SubSeq(JoinSp(l), 1, Len(JoinSp(l)) - 1)

\* '{}'.format(name) of an optional string
Str(name) == IF name = None THEN "None" ELSE name[1]

\* str.replace: every non-overlapping occurrence, left to right.
RECURSIVE replace(_, _, _)
replace(s, old, new) ==
  IF Len(s) < Len(old) THEN s
  ELSE IF SubSeq(s, 1, Len(old)) = old
    THEN new \o replace(SubSeq(s, Len(old) + 1, Len(s)), old, new)
    ELSE SubSeq(s, 1, 1) \o replace(SubSeq(s, 2, Len(s)), old, new)

\* CGenerator.visit: the C text of a node.  generate_type threads the
\* pointer modifiers met on the way down to the TypeDecl that holds the name.
RECURSIVE visit(_), generate_type(_, _), visit_body(_, _)
generate_type(n, mods) ==
  IF n.kind = "TypeDecl" THEN
    LET s == JoinSp(n.quals) \o visit(n.kids[1])
        nstr == mods \o (IF n.declname = None THEN "" ELSE n.declname[1])
    IN  IF nstr # "" THEN s \o " " \o nstr ELSE s
  ELSE IF n.kind = "PtrDecl" THEN
    generate_type(n.kids[1],
                  IF n.quals # <<>> THEN "* " \o JoinSp(n.quals) \o mods
                  ELSE "*" \o mods)
  ELSE IF n.kind \in {"Decl", "Typedef"} THEN generate_type(n.kids[1], mods)
  ELSE visit(n)

visit_body(members, i) ==
  IF i > Len(members) THEN ""
  ELSE "  " \o visit(members[i]) \o ";\n" \o visit_body(members, i + 1)

visit(n) ==
  IF n.kind \in {"Decl", "Typedef"} THEN
    JoinSp(n.storage) \o generate_type(n.kids[1], "")
  ELSE IF n.kind \in {"TypeDecl", "PtrDecl"} THEN generate_type(n, "")
  ELSE IF n.kind = "IdentifierType" THEN Join(n.names)
  ELSE IF n.kind \in {"Struct", "Union"} THEN
    (IF n.kind = "Struct" THEN "struct " ELSE "union ")
      \o (IF Truthy(n.name) THEN n.name[1] ELSE "")
      \o (IF n.kids # <<>> THEN "\n{\n" \o visit_body(n.kids, 1) \o "}" ELSE "")
  ELSE IF n.kind = "Enum" THEN
    "enum " \o (IF Truthy(n.name) THEN n.name[1] ELSE "")
      \o "\n{\n" \o visit_body(n.kids[1].kids, 1) \o "}"
  ELSE IF n.kind = "Enumerator" THEN n.name[1]
  ELSE ""

cython_from_c(n) ==
  replace(replace(replace(visit(n), "(void)", "()"), "struct ", ""),
          "[SDL_MESSAGEBOX_COLOR_MAX]", "[5]")

(* ------------------------- synthetic names ----------------------------- *)

\* The process-wide state the emitter works on: the counter, the names
\* anonymous has returned so far, and the lines written to sys.stdout.
World(serial, names, out) ==
  [anonymous_serial |-> serial, anonymous_names |-> names, stdout |-> out]

\* anonymous with the counter read but not advanced.
anonymous_no_increment(n, w) ==
  LET serial == w.anonymous_serial
      kind == IF n.kind = "Union" THEN "union" ELSE "struct"
      name == IF Truthy(n.name) THEN n.name[1] ELSE "anon"
      rv == name \o "_" \o kind \o "_" \o ToString(serial)
  IN  [ret |-> rv,
       w |-> World(serial, Append(w.anonymous_names, rv), w.stdout)]

anonymous(n, w) ==
  LET serial == w.anonymous_serial + 1
      kind == IF n.kind = "Union" THEN "union"
              ELSE IF n.kind = "Struct" THEN "struct"
              ELSE "unknown node"
      name == IF Truthy(n.name) THEN n.name[1] ELSE "anon"
      rv == name \o "_" \o kind \o "_" \o ToString(serial)
  IN  [ret |-> rv,
       w |-> World(serial, Append(w.anonymous_names, rv), w.stdout)]

(* ------------------------------ Writer --------------------------------- *)

Writer(s) == [first |-> s, rest |-> <<>>]

Writer_add(wr, s) == [wr EXCEPT !.rest = Append(@, s)]

Writer_write(wr, out) ==
  out \o <<"    " \o wr.first>>
      \o [i \in 1..Len(wr.rest) |-> "        " \o wr.rest[i]]
      \o <<"">>

(* -------------------------- modifier stripper -------------------------- *)

RECURSIVE remove_modifiers(_)
remove_modifiers(n) ==
  [n EXCEPT !.kids = [i \in 1..Len(n.kids) |-> remove_modifiers(n.kids[i])],
            !.quals = IF HasQuals(n) THEN <<>> ELSE @,
            !.storage = IF HasStorage(n) THEN <<>> ELSE @]


(* ----------------------- hoister and emitter --------------------------- *)

\* Each operator returns the value the function returns (ret), its argument
\* as the call leaves it (n: the functions rewrite the tree in place) and
\* the world after the call (w).
RECURSIVE reorganize_decl(_, _), reorganize_children(_, _, _),
          generate_members_unhoisted(_, _, _, _),
          generate_decl(_, _, _, _), generate_struct_or_union(_, _, _, _, _),
          generate_members(_, _, _, _)

\* The loop of reorganize_decl over n.children(), from child i on.
reorganize_children(n, i, w) ==
  IF i > Len(n.kids) THEN [n |-> n, w |-> w]
  ELSE LET r == reorganize_decl(n.kids[i], w)
       IN  reorganize_children([n EXCEPT !.kids[i] = r.ret], i + 1, r.w)

\* reorganize_decl that names a nested aggregate but never emits it.
reorganize_decl_no_emit(n, w) ==
  IF IsAggregate(n) THEN
    LET a == IF ~Truthy(n.name) THEN anonymous(n, w)
             ELSE [ret |-> n.name[1], w |-> w]
    IN  [ret |-> IdentifierType(<<a.ret>>), n |-> n, w |-> a.w]
  ELSE
    LET c == reorganize_children(n, 1, w)
    IN  [ret |-> c.n, n |-> c.n, w |-> c.w]

\* reorganize_decl without the test `if n.decls`.
reorganize_decl_always_emit(n, w) ==
  IF IsAggregate(n) THEN
    LET a == IF ~Truthy(n.name) THEN anonymous(n, w)
             ELSE [ret |-> n.name[1], w |-> w]
        g == generate_decl(n, "", Some(a.ret), a.w)
    IN  [ret |-> IdentifierType(<<a.ret>>), n |-> g.n, w |-> g.w]
  ELSE
    LET c == reorganize_children(n, 1, w)
    IN  [ret |-> c.n, n |-> c.n, w |-> c.w]

reorganize_decl(n, w) ==
  IF IsAggregate(n) THEN
    LET a == IF ~Truthy(n.name) THEN anonymous(n, w)
             ELSE [ret |-> n.name[1], w |-> w]
        g == IF n.kids # <<>> THEN generate_decl(n, "", Some(a.ret), a.w)
             ELSE [ret |-> FALSE, n |-> n, w |-> a.w]
    IN  [ret |-> IdentifierType(<<a.ret>>), n |-> g.n, w |-> g.w]
  ELSE
    LET c == reorganize_children(n, 1, w)
    IN  [ret |-> c.n, n |-> c.n, w |-> c.w]

\* generate_members that renders each member as it stood before hoisting.
generate_members_unhoisted(n, i, wr, w) ==
  IF i > Len(n.kids) THEN [n |-> n, wr |-> wr, w |-> w]
  ELSE LET r == reorganize_decl(n.kids[i], w)
       IN  generate_members_unhoisted(
             [n EXCEPT !.kids[i] = r.n], i + 1,
             Writer_add(wr, cython_from_c(n.kids[i])), r.w)

\* The loop of generate_struct_or_union over n.decls, from member i on; wr
\* is the Writer being filled.
generate_members(n, i, wr, w) ==
  IF i > Len(n.kids) THEN [n |-> n, wr |-> wr, w |-> w]
  ELSE LET r == reorganize_decl(n.kids[i], w)
       IN  generate_members([n EXCEPT !.kids[i] = r.n], i + 1,
                            Writer_add(wr, cython_from_c(r.ret)), r.w)

\* generate_struct_or_union that omits a name of omit_cdef whatever ckind is.
generate_struct_or_union_omit_any(kind, n, ckind, name, w) ==
  LET name1 == IF name = None THEN n.name ELSE name
      ckind1 == IF ckind = "" THEN "cdef " ELSE ckind
  IN  IF name1 # None /\ name1[1] \in omit_cdef
        THEN [n |-> n, w |-> w]
      ELSE IF n.kids # <<>> THEN
        LET m == generate_members(
                   n, 1, Writer(ckind1 \o kind \o " " \o Str(name1) \o ":"), w)
        IN  [n |-> m.n,
             w |-> [m.w EXCEPT !.stdout = Writer_write(m.wr, @)]]
      ELSE
        [n |-> n,
         w |-> [w EXCEPT !.stdout =
                  Writer_write(Writer(ckind1 \o kind \o " " \o Str(name1)), @)]]

\* generate_struct_or_union that writes its own declaration first and what
\* its members hoisted after it.
generate_struct_or_union_write_first(kind, n, ckind, name, w) ==
  LET name1 == IF name = None THEN n.name ELSE name
      ckind1 == IF ckind = "" THEN "cdef " ELSE ckind
  IN  IF ckind1 = "cdef " /\ name1 # None /\ name1[1] \in omit_cdef
        THEN [n |-> n, w |-> w]
      ELSE IF n.kids # <<>> THEN
        LET m == generate_members(
                   n, 1, Writer(ckind1 \o kind \o " " \o Str(name1) \o ":"), w)
            hoisted == SubSeq(m.w.stdout, Len(w.stdout) + 1, Len(m.w.stdout))
        IN  [n |-> m.n,
             w |-> [m.w EXCEPT !.stdout = Writer_write(m.wr, w.stdout) \o hoisted]]
      ELSE
        [n |-> n,
         w |-> [w EXCEPT !.stdout =
                  Writer_write(Writer(ckind1 \o kind \o " " \o Str(name1)), @)]]

generate_struct_or_union(kind, n, ckind, name, w) ==
  LET name1 == IF name = None THEN n.name ELSE name
      ckind1 == IF ckind = "" THEN "cdef " ELSE ckind
  IN  IF ckind1 = "cdef " /\ name1 # None /\ name1[1] \in omit_cdef
        THEN [n |-> n, w |-> w]
      ELSE IF n.kids # <<>> THEN
        LET m == generate_members(
                   n, 1, Writer(ckind1 \o kind \o " " \o Str(name1) \o ":"), w)
        IN  [n |-> m.n,
             w |-> [m.w EXCEPT !.stdout = Writer_write(m.wr, @)]]
      ELSE
        [n |-> n,
         w |-> [w EXCEPT !.stdout =
                  Writer_write(Writer(ckind1 \o kind \o " " \o Str(name1)), @)]]

\* generate_enum that lists the enumerators last to first.
generate_enum_reversed(n, ckind, name, w) ==
  LET ckind1 == IF ckind = "" THEN "cdef " ELSE ckind
      name1 == IF ~Truthy(name) THEN n.name ELSE name
      enumerators == n.kids[1].kids
      K == Len(enumerators)
      wr == [first |-> IF Truthy(name1)
                         THEN ckind1 \o "enum " \o name1[1] \o ":"
                         ELSE ckind1 \o " enum:",
             rest |-> [i \in 1..K |-> enumerators[K + 1 - i].name[1]]]
  IN  [ret |-> TRUE, n |-> n,
       w |-> [w EXCEPT !.stdout = Writer_write(wr, @)]]

\* The Enum branch of generate_decl.
generate_enum(n, ckind, name, w) ==
  LET ckind1 == IF ckind = "" THEN "cdef " ELSE ckind
      name1 == IF ~Truthy(name) THEN n.name ELSE name
      enumerators == n.kids[1].kids
      wr == [first |-> IF Truthy(name1)
                         THEN ckind1 \o "enum " \o name1[1] \o ":"
                         ELSE ckind1 \o " enum:",
             rest |-> [i \in 1..Len(enumerators) |-> enumerators[i].name[1]]]
  IN  [ret |-> TRUE, n |-> n,
       w |-> [w EXCEPT !.stdout = Writer_write(wr, @)]]

\* ret is the truth value of what generate_decl returns: the Typedef and
\* Decl branches return nothing, which callers treat as false.
generate_decl(n, ckind, name, w) ==
  IF n.kind \in {"Typedef", "Decl"} THEN
    LET name1 == IF name = None THEN n.name ELSE name
        ckind1 == IF n.kind = "Typedef" THEN "ctypedef " ELSE ckind
        n1 == IF n.kind = "Typedef"
                THEN [n EXCEPT !.storage = <<>>, !.quals = <<>>]
                ELSE [n EXCEPT !.storage = <<>>]
        g == generate_decl(n1.kids[1], ckind1, name1, w)
        n2 == [n1 EXCEPT !.kids[1] = g.n]
    IN  [ret |-> FALSE,
         n |-> n2,
         w |-> IF ~g.ret
                 THEN [g.w EXCEPT !.stdout =
                         Writer_write(Writer(ckind1 \o cython_from_c(n2)), @)]
                 ELSE g.w]
  ELSE IF n.kind = "TypeDecl" THEN
    \* (a TypeDecl has no attribute `name`; every caller passes one)
    LET name1 == IF name = None THEN n.name ELSE name
        g == generate_decl(n.kids[1], ckind, name1, w)
    IN  [ret |-> g.ret, n |-> [n EXCEPT !.kids[1] = g.n], w |-> g.w]
  ELSE IF n.kind = "Struct" THEN
    LET g == generate_struct_or_union("struct", n, ckind, name, w)
    IN  [ret |-> TRUE, n |-> g.n, w |-> g.w]
  ELSE IF n.kind = "Union" THEN
    LET g == generate_struct_or_union("union", n, ckind, name, w)
    IN  [ret |-> TRUE, n |-> g.n, w |-> g.w]
  ELSE IF n.kind = "Enum" THEN generate_enum(n, ckind, name, w)
  ELSE [ret |-> FALSE, n |-> n, w |-> w]


(* ----------------------- bounded sets of inputs ------------------------ *)

IntType == IdentifierType(<<"int">>)

MemberName(i) == "m" \o ToString(i)

\* `int m;`
Scalar(m) == Decl(Some(m), <<>>, <<>>, TypeDecl(Some(m), <<>>, IntType))

\* `struct ... m;` with the struct or union `agg`
Field(m, agg) == Decl(Some(m), <<>>, <<>>, TypeDecl(Some(m), <<>>, agg))

\* kind and name of the aggregates generated: an unnamed struct, an unnamed
\* union, a named struct and a struct whose name is in omit_cdef.
Attrs ==
  {[kind |-> "Struct", name |-> None], [kind |-> "Union", name |-> None],
   [kind |-> "Struct", name |-> Some("SDL_Point")],
   [kind |-> "Struct", name |-> Some("SDL_mutex")]}

Aggregate(attr, decls) ==
  IF attr.kind = "Struct" THEN Struct(attr.name, decls)
  ELSE Union(attr.name, decls)

\* The member list made of the aggregates `aggs` as fields, with one scalar
\* member in front ("first"), behind ("last") or nowhere ("none").
Members(aggs, pad) ==
  LET off == IF pad = "first" THEN 1 ELSE 0
      fields == [i \in 1..Len(aggs) |-> Field(MemberName(i + off), aggs[i])]
  IN  IF pad = "first" THEN <<Scalar(MemberName(1))>> \o fields
      ELSE IF pad = "last"
        THEN fields \o <<Scalar(MemberName(Len(aggs) + 1))>>
        ELSE fields

\* AggSeqs(tab, k, l): the sequences of l aggregates that contain k
\* struct/union nodes in all, where tab[j] is the set of the aggregates that
\* contain exactly j such nodes, themselves included.
RECURSIVE AggSeqs(_, _, _)
AggSeqs(tab, k, l) ==
  IF l = 0 THEN (IF k = 0 THEN {<<>>} ELSE {})
  ELSE UNION {LET rest == AggSeqs(tab, k - j, l - 1)
              IN  {<<a>> \o f : a \in tab[j], f \in rest} : j \in 1..k}

\* Where the scalar member goes: a member list with room left gets one, in
\* front in a union and behind in a struct; an aggregate without fields
\* comes with the scalar and with no member at all.
Pads(attr, l) ==
  IF l = 0 THEN {"none", "last"}
  ELSE IF l = MaxDecls THEN {"none"}
  ELSE IF attr.kind = "Union" THEN {"first"}
  ELSE {"last"}

\* the aggregates that contain exactly k struct/union nodes, given tab for
\* the smaller ones
AggLevel(tab, k) ==
  UNION {LET seqs == AggSeqs(tab, k - 1, l)
         IN  UNION {{Aggregate(attr, Members(f, pad)) :
                       f \in seqs, pad \in Pads(attr, l)} : attr \in Attrs} :
         l \in 0..MaxDecls}

RECURSIVE AggTable(_)
AggTable(k) ==
  IF k = 0 THEN <<>>
  ELSE LET tab == AggTable(k - 1) IN Append(tab, AggLevel(tab, k))

AggsByCount == AggTable(MaxAggs)

AggsExact(k) == AggsByCount[k]

Aggs == UNION {AggsExact(k) : k \in 1..MaxAggs}

EnumNames == <<"SDL_FALSE", "SDL_TRUE", "SDL_MAYBE", "SDL_NEVER", "SDL_ALWAYS">>

\* enums with 0..MaxEnum enumerators, named or not
Enums ==
  {Enum(nm, EnumeratorList([i \in 1..k |-> Enumerator(EnumNames[i])])) :
     nm \in {None, Some("SDL_bool")}, k \in 0..MaxEnum}


\* Identifiers for the name filter: the configured names, and every prefix
\* the filter tests for (whole, cut short, in the other case, displaced)
\* followed by a few endings.
FilterNames ==
  whitelist \cup blacklist \cup omit_cdef
    \cup {p \o e :
            p \in {"", "S", "SD", "SDL", "SDL_", "sdl_", "Sdl", "xSDL", "_SDL_",
                   "SDL_dumm", "SDL_dummy", "SDL_DUMMY", "SDL_Dummy",
                   "SDL_DUMMy", "xSDL_dummy", "SDL_vsscanf", "Uint8",
                   "SDL_Sint32"},
            e \in {"", "_", "x", "Init", "2"}}

\* Trees for check_name: a declaration of a struct with one or two members,
\* or of an enum with one enumerator; every name is absent, one the filter
\* passes or one it rejects.
OptNames == {None, Some("SDL_a"), Some("foo")}

CheckNameInputs ==
  {Decl(dn, <<>>, <<>>, Struct(sn, ms)) :
     dn \in OptNames, sn \in OptNames,
     ms \in UNION {[1..l -> {Decl(mn, <<>>, <<>>, TypeDecl(mn, <<>>, IntType)) :
                              mn \in OptNames}] : l \in 0..MaxDecls}}
    \cup {Decl(dn, <<>>, <<>>, Enum(en, EnumeratorList(<<Enumerator(vn)>>))) :
            dn \in OptNames, en \in OptNames, vn \in {"SDL_a", "foo"}}
    \cup {Typedef(dn, <<>>, <<"typedef">>, TypeDecl(dn, <<>>, IntType)) :
            dn \in {Some("Uint8"), Some("size_t")}}

\* Arguments for reorganize_decl: a member declaration (a scalar, or a field
\* whose type is an aggregate) or an aggregate itself.
PtrField(m, type) ==
  Decl(Some(m), <<>>, <<>>, PtrDecl(<<>>, TypeDecl(Some(m), <<>>, type)))

HoistInputs ==
  {Scalar("m1"), PtrField("m1", IntType), IntType}
    \cup {Field("m1", e) : e \in Enums}
    \cup {PtrField("m1", a) : a \in AggsExact(1)}
    \cup {Field("m1", a) : a \in Aggs} \cup Aggs

\* Arguments for generate_decl.
EmitNodes ==
  Aggs \cup Enums
    \cup {Scalar("SDL_x"), IntType,
          Typedef(Some("Sint32"), <<"const">>, <<"typedef">>,
                  TypeDecl(Some("Sint32"), <<>>, IntType))}

EmitKinds == {"", "ctypedef "}

EmitNames == {None, Some("SDL_Alias"), Some("SDL_cond")}

(* ---------------------- the translation units -------------------------- *)

\* `struct <agg>;` at top level
AggDecl(agg) == Decl(None, <<>>, <<>>, agg)

\* `typedef <type> nm;`
TypedefOf(nm, type) ==
  Typedef(Some(nm), <<>>, <<"typedef">>, TypeDecl(Some(nm), <<>>, type))

\* struct SDL_Event { int m1; union { struct { int m1; } m1; int m2; } m2; }
NestedEvent ==
  Struct(Some("SDL_Event"),
         <<Scalar("m1"),
           Field("m2", Union(None, <<Field("m1", Struct(None, <<Scalar("m1")>>)),
                                     Scalar("m2")>>))>>)

\* struct SDL_Pair { struct { int m1; } m1; union { int m1; } m2; }
Siblings ==
  Struct(Some("SDL_Pair"),
         <<Field("m1", Struct(None, <<Scalar("m1")>>)),
           Field("m2", Union(None, <<Scalar("m1")>>))>>)

TopLevels ==
  {AggDecl(Struct(Some("SDL_mutex"), <<>>)),
   TypedefOf("SDL_mutex", Struct(Some("SDL_mutex"), <<>>)),
   AggDecl(Struct(Some("SDL_Thread"), <<Scalar("m1")>>)),
   AggDecl(Struct(Some("SDL_Point"), <<Scalar("m1"), Scalar("m2")>>)),
   AggDecl(NestedEvent),
   TypedefOf("SDL_Pair", Siblings),
   AggDecl(Struct(Some("timeval"), <<Scalar("SDL_sec")>>)),
   AggDecl(Enum(Some("SDL_bool"),
                EnumeratorList(<<Enumerator("SDL_FALSE"), Enumerator("SDL_TRUE")>>))),
   Field("SDL_var", Struct(Some("SDL_cond"), <<>>)),
   TypedefOf("Sint32", IntType),
   TypedefOf("size_t", IntType),
   Decl(Some("SDL_x"), <<"const">>, <<"extern">>,
        TypeDecl(Some("SDL_x"), <<"const">>, IntType)),
   Decl(Some("SDL_dummy_x"), <<>>, <<"extern">>,
        TypeDecl(Some("SDL_dummy_x"), <<>>, IntType))}

TranslationUnits == UNION {[1..l -> TopLevels] : l \in 0..MaxExt}

PREAMBLE ==
  <<"from libc.stdint cimport *",
    "from libc.stdio cimport *",
    "from libc.stddef cimport *",
    "",
    "cdef extern from \"SDL.h\" nogil:",
    "",
    "    cdef struct _SDL_iconv_t",
    "",
    "    cdef struct SDL_BlitMap",
    "",
    "    ctypedef struct SDL_AudioCVT">>

(* ------------------------------- main ---------------------------------- *)

TheWorld == World(anonymous_serial, anonymous_names, stdout)

SetWorld(w) ==
  /\ anonymous_serial' = w.anonymous_serial
  /\ anonymous_names' = w.anonymous_names
  /\ stdout' = w.stdout

Fresh ==
  /\ idx = 1
  /\ anonymous_serial = 0
  /\ anonymous_names = <<>>
  /\ stdout = <<>>
  /\ call = [fn |-> "none"]

Init ==
  /\ pc = "start"
  /\ ext \in TranslationUnits
  /\ Fresh

\* main up to its loop: the file is parsed, the preamble written.
MainPreamble ==
  /\ pc = "start"
  /\ stdout' = stdout \o PREAMBLE
  /\ pc' = IF ext = <<>> THEN "done" ELSE "loop"
  /\ UNCHANGED <<ext, idx, anonymous_serial, anonymous_names, call>>

\* The turn of the loop for a rejected node, emitting it all the same.
MainSkipEmits ==
  /\ pc = "loop"
  /\ ~check_name(ext[idx])
  /\ LET g == generate_decl(remove_modifiers(ext[idx]), "", None, TheWorld)
     IN  /\ ext' = [ext EXCEPT ![idx] = g.n]
         /\ SetWorld(g.w)
  /\ idx' = idx + 1
  /\ pc' = IF idx = Len(ext) THEN "done" ELSE "loop"
  /\ UNCHANGED call

\* One turn of main's loop over a.ext, for a node check_name rejects.
MainSkip ==
  /\ pc = "loop"
  /\ ~check_name(ext[idx])
  /\ idx' = idx + 1
  /\ pc' = IF idx = Len(ext) THEN "done" ELSE "loop"
  /\ UNCHANGED <<ext, anonymous_serial, anonymous_names, stdout, call>>

\* One turn of main's loop over a.ext, for a node check_name accepts.
MainEmit ==
  /\ pc = "loop"
  /\ check_name(ext[idx])
  /\ LET g == generate_decl(remove_modifiers(ext[idx]), "", None, TheWorld)
     IN  /\ ext' = [ext EXCEPT ![idx] = g.n]
         /\ SetWorld(g.w)
  /\ idx' = idx + 1
  /\ pc' = IF idx = Len(ext) THEN "done" ELSE "loop"
  /\ UNCHANGED call

Next == MainPreamble \/ MainSkip \/ MainEmit

Spec == Init /\ [][Next]_vars

(* ---------------- the filter functions on their own -------------------- *)

InitFilter ==
  /\ pc = "filter"
  /\ ext = <<>>
  /\ Fresh

CallNameFilter ==
  /\ pc = "filter"
  /\ \E name \in FilterNames :
       call' = [fn |-> "name_filter", name |-> name, ret |-> name_filter(name)]
  /\ pc' = "returned"
  /\ UNCHANGED <<ext, idx, anonymous_serial, anonymous_names, stdout>>

CallCheckName ==
  /\ pc = "filter"
  /\ \E n \in CheckNameInputs :
       call' = [fn |-> "check_name", n |-> n, ret |-> check_name(n)]
  /\ pc' = "returned"
  /\ UNCHANGED <<ext, idx, anonymous_serial, anonymous_names, stdout>>

NextFilter == CallNameFilter \/ CallCheckName

SpecFilter == InitFilter /\ [][NextFilter]_vars

(* ------------- the hoister and the emitter on their own ---------------- *)

InitUnit ==
  /\ pc = "unit"
  /\ ext = <<>>
  /\ Fresh

CallReorganizeDecl ==
  /\ pc = "unit"
  /\ \E n \in HoistInputs :
       LET r == reorganize_decl(n, TheWorld)
       IN  /\ call' = [fn |-> "reorganize_decl", n |-> n, ret |-> r.ret,
                       after |-> r.n]
           /\ SetWorld(r.w)
  /\ pc' = "returned"
  /\ UNCHANGED <<ext, idx>>

CallGenerateDecl ==
  /\ pc = "unit"
  /\ \E n \in EmitNodes, ckind \in EmitKinds, name \in EmitNames :
       LET g == generate_decl(n, ckind, name, TheWorld)
       IN  /\ call' = [fn |-> "generate_decl", n |-> n, ckind |-> ckind,
                       name |-> name, ret |-> g.ret, after |-> g.n]
           /\ SetWorld(g.w)
  /\ pc' = "returned"
  /\ UNCHANGED <<ext, idx>>

NextUnit == CallReorganizeDecl \/ CallGenerateDecl

SpecUnit == InitUnit /\ [][NextUnit]_vars


(* ============================= properties ============================== *)

\* p is the text s starts with (stated on its own, without StartsWith)
HasPrefix(s, p) == \E k \in 0..Len(s) : SubSeq(s, 1, k) = p

EndsWith(s, p) == \E k \in 1..(Len(s) + 1) : SubSeq(s, k, Len(s)) = p

Range(f) == {f[i] : i \in DOMAIN f}

IsPrefixOf(a, b) == Len(a) <= Len(b) /\ SubSeq(b, 1, Len(a)) = a

DebugPrefix(name) == HasPrefix(name, "SDL_dummy") \/ HasPrefix(name, "SDL_DUMMY")

PublicPrefix(name) == HasPrefix(name, "SDL")

\* C1: name_filter returns the outcome of the first rule that applies:
\* exclusion set -> excluded, inclusion set -> included, debug prefix ->
\* excluded, public prefix -> included, otherwise excluded.
C1_FirstRuleDecides ==
  (pc = "returned" /\ call.fn = "name_filter") =>
    LET name == call.name
        r1 == name \in blacklist
        r2 == name \in whitelist
        r3 == DebugPrefix(name)
        r4 == PublicPrefix(name)
    IN  /\ r1 => call.ret = FALSE
        /\ (~r1 /\ r2) => call.ret = TRUE
        /\ (~r1 /\ ~r2 /\ r3) => call.ret = FALSE
        /\ (~r1 /\ ~r2 /\ ~r3 /\ r4) => call.ret = TRUE
        /\ (~r1 /\ ~r2 /\ ~r3 /\ ~r4) => call.ret = FALSE

\* C1's case: a name of the exclusion set that carries the public prefix.
C1_Witness ==
  /\ pc = "returned" /\ call.fn = "name_filter"
  /\ call.name \in blacklist /\ PublicPrefix(call.name)
  /\ call.ret = FALSE

\* every node below n
RECURSIVE Descendants(_)
Descendants(n) ==
  UNION {{n.kids[i]} \cup Descendants(n.kids[i]) : i \in 1..Len(n.kids)}

\* the named nodes below n that have no named node between them and n
RECURSIVE NearestNamed(_)
NearestNamed(n) ==
  UNION {IF n.kids[i].name # None THEN {n.kids[i]}
         ELSE NearestNamed(n.kids[i]) : i \in 1..Len(n.kids)}

\* C2 as stated: a named node gets the filter's verdict on its name; an
\* unnamed node is included iff the name of any descendant passes the filter.
C2_AnyDescendant ==
  (pc = "returned" /\ call.fn = "check_name") =>
    call.ret = IF call.n.name # None THEN name_filter(call.n.name[1])
               ELSE \E d \in Descendants(call.n) :
                      d.name # None /\ name_filter(d.name[1])

\* C2 amended: a named node gets the filter's verdict on its name; an unnamed
\* node is included iff the filter passes the name of a descendant that has
\* no named node between itself and the node (nothing below a named node is
\* looked at).
C2_NearestNamed ==
  (pc = "returned" /\ call.fn = "check_name") =>
    call.ret = IF call.n.name # None THEN name_filter(call.n.name[1])
               ELSE \E d \in NearestNamed(call.n) : name_filter(d.name[1])

\* C2's case: an unnamed node over a named node the filter rejects, which
\* has a descendant the filter passes.
C2_Witness ==
  /\ pc = "returned" /\ call.fn = "check_name"
  /\ call.n.name = None
  /\ \A d \in NearestNamed(call.n) : ~name_filter(d.name[1])
  /\ \E d \in Descendants(call.n) : d.name # None /\ name_filter(d.name[1])
  /\ call.ret = FALSE

NoDuplicates(seq) ==
  \A i, j \in DOMAIN seq : i # j => seq[i] # seq[j]

\* C3: the counter never decreases, it counts the calls of anonymous one by
\* one (the names returned so far are as many as the counter says and are
\* never taken back), and the names returned so far are pairwise distinct.
C3_SerialMonotonic ==
  /\ [](Len(anonymous_names) = anonymous_serial /\ NoDuplicates(anonymous_names))
  /\ [][/\ anonymous_serial' >= anonymous_serial
        /\ IsPrefixOf(anonymous_names, anonymous_names')]_vars

\* C3's case: names generated while emitting two different top-level nodes.
C3_Witness ==
  /\ pc = "done"
  /\ anonymous_serial = 4
  /\ Cardinality(Range(anonymous_names)) = 4


(* ------------------------- reading the output -------------------------- *)

\* a line Writer.write wrote for `first`: indented by four blanks
IsHeader(l) == Len(l) > 4 /\ SubSeq(l, 1, 4) = "    " /\ SubSeq(l, 5, 5) # " "

\* a line Writer.write wrote for an entry of `rest`: indented by eight blanks
IsBody(l) == Len(l) > 8 /\ SubSeq(l, 1, 8) = "        " /\ SubSeq(l, 9, 9) # " "

Headers(out) == {i \in DOMAIN out : IsHeader(out[i])}

KindWord(n) == IF n.kind = "Struct" THEN "struct" ELSE "union"

\* the header of a plain declaration of an aggregate with members
CdefHeader(kindword, name) == "    cdef " \o kindword \o " " \o name \o ":"

Occurrences(out, l) == Cardinality({i \in DOMAIN out : out[i] = l})

\* the struct/union nodes of a tree, in preorder, one entry per node
RECURSIVE AggNodes(_), AggNodesOf(_, _)
AggNodes(n) ==
  (IF IsAggregate(n) THEN <<n>> ELSE <<>>) \o AggNodesOf(n.kids, 1)

AggNodesOf(kids, i) ==
  IF i > Len(kids) THEN <<>>
  ELSE AggNodes(kids[i]) \o AggNodesOf(kids, i + 1)

HasMembers(n) == n.kids # <<>>

Omitted(n) == Truthy(n.name) /\ n.name[1] \in omit_cdef

\* the struct/union nodes with members, in preorder, leaving out those whose
\* name is in omit_cdef and all that lies inside them
RECURSIVE Kept(_), KeptOf(_, _)
Kept(n) ==
  IF IsAggregate(n) /\ Omitted(n) THEN <<>>
  ELSE (IF IsAggregate(n) /\ HasMembers(n) THEN <<n>> ELSE <<>>)
         \o KeptOf(n.kids, 1)

KeptOf(kids, i) ==
  IF i > Len(kids) THEN <<>>
  ELSE Kept(kids[i]) \o KeptOf(kids, i + 1)

Select(seq, P(_)) == {i \in DOMAIN seq : P(seq[i])}

\* The output defines each of the aggregates `nodes` exactly once: as many
\* headers as nodes; per kind and name, as many headers as named nodes; per
\* kind, as many headers under a synthetic name as unnamed nodes, and no
\* synthetic name under two headers.
DefinedOnce(nodes, out) ==
  /\ Cardinality(Headers(out)) = Len(nodes)
  /\ \A i \in DOMAIN nodes :
       Truthy(nodes[i].name) =>
         Occurrences(out, CdefHeader(KindWord(nodes[i]), nodes[i].name[1]))
           = Cardinality({j \in DOMAIN nodes :
                            /\ nodes[j].kind = nodes[i].kind
                            /\ nodes[j].name = nodes[i].name})
  /\ \A kw \in {"struct", "union"} :
       /\ Cardinality({i \in DOMAIN out :
                         \E s \in Range(anonymous_names) :
                           out[i] = CdefHeader(kw, s)})
            = Cardinality({j \in DOMAIN nodes :
                             ~Truthy(nodes[j].name) /\ KindWord(nodes[j]) = kw})
       /\ \A s \in Range(anonymous_names) :
            Occurrences(out, CdefHeader(kw, s)) <= 1

\* out is inp with every struct/union replaced by a reference to its
\* effective name; an aggregate with members (and, if omits is true, with a
\* name outside omit_cdef) has its definition in the output under that name.
RECURSIVE ReferencedByName(_, _, _)
ReferencedByName(inp, out, omits) ==
  IF IsAggregate(inp) THEN
    /\ out.kind = "IdentifierType" /\ Len(out.names) = 1 /\ out.kids = <<>>
    /\ IF Truthy(inp.name) THEN out.names[1] = inp.name[1]
       ELSE out.names[1] \in Range(anonymous_names)
    /\ (HasMembers(inp) /\ (omits => ~Omitted(inp))) =>
         CdefHeader(KindWord(inp), out.names[1]) \in Range(stdout)
  ELSE
    /\ [out EXCEPT !.kids = <<>>] = [inp EXCEPT !.kids = <<>>]
    /\ Len(out.kids) = Len(inp.kids)
    /\ \A i \in 1..Len(inp.kids) :
         ReferencedByName(inp.kids[i], out.kids[i], omits)

Hoisted == pc = "returned" /\ call.fn = "reorganize_decl"

\* C4 as stated: after reorganize_decl no struct/union is left inside the
\* declaration, and every struct/union with members that was nested in it
\* is defined exactly once in the output under its effective name and
\* referenced by that name where it stood.
C4_EveryNestedDefinedOnce ==
  Hoisted =>
    /\ AggNodes(call.ret) = <<>>
    /\ DefinedOnce(SelectSeq(AggNodes(call.n), HasMembers), stdout)
    /\ ReferencedByName(call.n, call.ret, FALSE)

\* C4 amended: after reorganize_decl no struct/union is left inside the
\* declaration and each is referenced by its effective name where it stood;
\* every struct/union with members is defined exactly once in the output
\* under its effective name, except those whose name is in the omit-set
\* and those nested inside such a one, which are defined nowhere.
C4_KeptNestedDefinedOnce ==
  Hoisted =>
    /\ AggNodes(call.ret) = <<>>
    /\ DefinedOnce(Kept(call.n), stdout)
    /\ ReferencedByName(call.n, call.ret, TRUE)

\* C4's case: a declaration with aggregates nested two deep has been hoisted,
\* one of them with members and a name of the omit-set.
C4_Witness ==
  /\ Hoisted
  /\ call.n.kind = "Decl"
  /\ Len(AggNodes(call.n)) = 3
  /\ \E i \in 1..3 : LET a == AggNodes(call.n)[i] IN HasMembers(a) /\ Omitted(a)
  /\ Len(Kept(call.n)) = 2
  /\ anonymous_serial >= 1

\* n with every struct/union replaced by a reference to its name
RECURSIVE Flattened(_)
Flattened(n) ==
  IF IsAggregate(n) THEN IdentifierType(<<Str(n.name)>>)
  ELSE [n EXCEPT !.kids = [i \in 1..Len(n.kids) |-> Flattened(n.kids[i])]]

Unnamed(n) == ~Truthy(n.name)

\* C5 as stated: a tree without an unnamed struct/union comes back equal,
\* nothing is emitted and the counter stays.
C5_NoAnonymousUnchanged ==
  (Hoisted /\ Select(AggNodes(call.n), Unnamed) = {}) =>
    /\ call.ret = call.n
    /\ stdout = <<>>
    /\ anonymous_serial = 0

NamedReference(n) == Truthy(n.name) /\ ~HasMembers(n)

\* C5 amended: a tree without any struct/union comes back equal, nothing is
\* emitted and the counter stays; a tree whose only structs/unions are named
\* references without members also emits nothing and leaves the counter,
\* and comes back with each reference replaced by a reference to the name.
C5_FlatUnchanged ==
  Hoisted =>
    /\ AggNodes(call.n) = <<>> =>
         /\ call.ret = call.n /\ call.after = call.n
         /\ stdout = <<>> /\ anonymous_serial = 0
    /\ (\A i \in DOMAIN AggNodes(call.n) : NamedReference(AggNodes(call.n)[i])) =>
         /\ call.ret = Flattened(call.n)
         /\ stdout = <<>> /\ anonymous_serial = 0

\* C5's case: a member declaration with children but without any struct or
\* union has gone through reorganize_decl.
C5_Witness ==
  /\ Hoisted
  /\ call.n.kind = "Decl" /\ call.n.kids[1].kind = "PtrDecl"
  /\ AggNodes(call.n) = <<>>
  /\ call.ret = call.n


Emitted == pc = "returned" /\ call.fn = "generate_decl"

\* what generate_decl was asked to produce: the kind prefix and the name the
\* aggregate goes under (the override if there is one, else its own)
CallPrefix == IF call.ckind = "" THEN "cdef " ELSE call.ckind

CallName == IF call.name # None THEN call.name ELSE call.n.name

Suppressed ==
  CallPrefix = "cdef " /\ CallName # None /\ CallName[1] \in omit_cdef

\* The output ends with the aggregate's own declaration: one header line
\* with prefix, kind and name, after it one body line per member, in order,
\* each naming its member and, for a member whose type is a struct/union, the
\* name that stands for it, then the blank line; the line before the header
\* belongs to another declaration.
OwnBlock ==
  LET N == Len(call.n.kids)
      L == Len(stdout)
      h == L - N - 1
      start == "    " \o CallPrefix \o KindWord(call.n) \o " "
  IN  /\ h >= 1
      /\ stdout[L] = ""
      /\ IsHeader(stdout[h]) /\ HasPrefix(stdout[h], start)
      /\ CallName # None =>
           stdout[h] = start \o CallName[1] \o (IF N > 0 THEN ":" ELSE "")
      /\ h > 1 => stdout[h - 1] = ""
      /\ \A i \in 1..N :
           LET m == call.n.kids[i]
               line == stdout[h + i]
               inner == AggNodes(m)
           IN  /\ IsBody(line)
               /\ EndsWith(line, " " \o m.name[1])
               /\ inner # <<>> =>
                    \E s \in Range(anonymous_names) \cup {Str(inner[1].name)} :
                      line = "        " \o s \o " " \o m.name[1]

\* C6 as stated: every struct/union with N members handed to generate_decl
\* emits for itself one header line and N body lines, one per member in
\* order, after hoisting; with no members, the header line alone.
C6_HeaderAndBodyLines ==
  (Emitted /\ IsAggregate(call.n)) => OwnBlock

\* C6 amended: every struct/union with N members handed to generate_decl
\* that the omit-set does not suppress emits for itself one header line and
\* N body lines, one per member in order, after hoisting; with no members,
\* the header line alone.  A suppressed one emits no line at all.
C6_HeaderAndBodyLinesUnlessOmitted ==
  (Emitted /\ IsAggregate(call.n)) =>
    IF Suppressed THEN stdout = <<>> ELSE OwnBlock

\* C6's case: a struct/union with two members, one of them a nested
\* aggregate with members, has been emitted.
C6_Witness ==
  /\ Emitted /\ IsAggregate(call.n) /\ ~Suppressed
  /\ Len(call.n.kids) = 2
  /\ Len(Kept(call.n)) >= 2
  /\ Len(stdout) > 4

\* C7: an enum with K enumerators emits one header line ('<prefix>enum
\* <name>:' when it has a name, '<prefix> enum:' when it has none), then K
\* body lines that name the enumerators in their order, and generate_decl
\* returns true.
C7_EnumLines ==
  (Emitted /\ call.n.kind = "Enum") =>
    LET enumerators == call.n.kids[1].kids
        K == Len(enumerators)
        name == IF Truthy(call.name) THEN call.name ELSE call.n.name
    IN  /\ call.ret = TRUE
        /\ Len(stdout) = K + 2
        /\ IsHeader(stdout[1]) /\ HasPrefix(stdout[1], "    " \o CallPrefix)
        /\ IF Truthy(name)
             THEN stdout[1] = "    " \o CallPrefix \o "enum " \o name[1] \o ":"
             ELSE stdout[1] = "    " \o CallPrefix \o " enum:"
        /\ \A i \in 1..K : stdout[1 + i] = "        " \o enumerators[i].name[1]
        /\ stdout[K + 2] = ""

\* C7's case: an unnamed enum with two enumerators has been emitted.
C7_Witness ==
  /\ Emitted /\ call.n.kind = "Enum"
  /\ call.name = None /\ call.n.name = None
  /\ Len(call.n.kids[1].kids) = 2
  /\ Len(stdout) = 4

\* the struct, union or other type a top-level declaration declares
RECURSIVE Target(_)
Target(n) ==
  IF n.kind \in {"Decl", "Typedef", "TypeDecl"} THEN Target(n.kids[1]) ELSE n

\* the name the type of a top-level declaration is emitted under
TargetName(n) == IF n.name # None THEN n.name ELSE Target(n).name

\* one turn of main's loop
LoopStep == pc = "loop" /\ idx' = idx + 1

\* A plain declaration of an omitted struct without members, then the
\* typedef of that struct under the same name.
OmitThenTypedef ==
  /\ Len(ext) = 2
  /\ ext[1].kind = "Decl" /\ ext[1].name = None
  /\ IsAggregate(ext[1].kids[1]) /\ Omitted(ext[1].kids[1])
  /\ ~HasMembers(ext[1].kids[1])
  /\ ext[2].kind = "Typedef" /\ ext[2].name = ext[1].kids[1].name
  /\ Target(ext[2]) = ext[1].kids[1]

\* C8: a top-level struct/union emits nothing exactly when it is declared
\* plainly (not by a typedef) and its target name is in the omit-set; so a
\* plain declaration of an omitted struct followed by the typedef of that
\* struct under the same name leaves the typedef's declaration alone in the
\* output.
C8_OmitOnlyPlain ==
  /\ [][(LoopStep /\ check_name(ext[idx]) /\ IsAggregate(Target(ext[idx]))) =>
          ((stdout' = stdout) <=>
             (/\ ext[idx].kind = "Decl"
              /\ TargetName(ext[idx]) # None
              /\ TargetName(ext[idx])[1] \in omit_cdef))]_vars
  /\ []((pc = "done" /\ OmitThenTypedef) =>
          stdout = PREAMBLE
                     \o <<"    ctypedef " \o KindWord(Target(ext[2])) \o " "
                            \o ext[2].name[1], "">>)

\* C8's case: the plain declaration and the typedef of an omitted struct
\* have both been processed.
C8_Witness ==
  /\ pc = "done" /\ OmitThenTypedef
  /\ Len(stdout) = Len(PREAMBLE) + 2

\* no qualifier and no storage class is left anywhere in the tree
RECURSIVE Stripped(_)
Stripped(n) ==
  /\ n.quals = <<>> /\ n.storage = <<>>
  /\ \A i \in 1..Len(n.kids) : Stripped(n.kids[i])

\* C9: each turn of the loop takes the next top-level node; what it writes
\* goes behind everything written before and no other node is touched; a
\* node the Name Filter excludes writes nothing and stays as it is, a node
\* it includes is stripped of its modifiers.
C9_SourceOrder ==
  [][pc = "loop" =>
       /\ idx' = idx + 1
       /\ IsPrefixOf(stdout, stdout')
       /\ \A j \in DOMAIN ext : j # idx => ext'[j] = ext[j]
       /\ IF check_name(ext[idx]) THEN Stripped(ext'[idx])
          ELSE stdout' = stdout /\ ext' = ext]_vars

FirstIndex(out, l) == CHOOSE i \in DOMAIN out : out[i] = l /\ \A j \in 1..(i - 1) : out[j] # l

\* C9's case: a run over two included nodes is finished; the declaration of
\* the first stands before everything the second one wrote.
C9_Witness ==
  /\ pc = "done" /\ Len(ext) = 2
  /\ TargetName(ext[1]) = Some("SDL_Point")
  /\ TargetName(ext[2]) = Some("SDL_Event")
  /\ "    cdef struct SDL_Point:" \in Range(stdout)
  /\ "    cdef struct SDL_Event:" \in Range(stdout)
  /\ FirstIndex(stdout, "    cdef struct SDL_Point:")
       < FirstIndex(stdout, "    cdef struct anon_struct_2:")

\* the header of the declaration that body line j belongs to
BlockStart(out, j) ==
  CHOOSE h \in 1..j : IsHeader(out[h]) /\ \A k \in (h + 1)..j : IsBody(out[k])

RefersTo(line, s) == IsBody(line) /\ HasPrefix(line, "        " \o s \o " ")

\* C10: the declaration of a hoisted struct/union stands before the
\* declaration whose body line refers to it: for every synthetic name, at
\* any depth, its header comes before the header of every declaration with a
\* body line of that type; and the declaration of an aggregate handed to
\* generate_decl comes behind the declarations of the aggregates with
\* members nested in its own members.
C10_DefinitionBeforeUse ==
  (Emitted \/ Hoisted) =>
    /\ \A s \in Range(anonymous_names) :
         \A j \in DOMAIN stdout :
           RefersTo(stdout[j], s) =>
             \A h \in DOMAIN stdout :
               stdout[h] \in {CdefHeader("struct", s), CdefHeader("union", s)}
                 => h < BlockStart(stdout, j)
    /\ (Emitted /\ IsAggregate(call.n) /\ ~Suppressed) =>
         \A i \in 1..Len(call.n.kids) :
           LET inner == AggNodes(call.n.kids[i])
               own == Len(stdout) - Len(call.n.kids) - 1
               line == stdout[own + i]
           IN  (inner # <<>> /\ HasMembers(inner[1]) /\ ~Omitted(inner[1])) =>
                 \E h \in 1..(own - 1) :
                   /\ IsHeader(stdout[h])
                   /\ HasPrefix(stdout[h], "    cdef " \o KindWord(inner[1]) \o " ")
                   /\ RefersTo(line, SubSeq(stdout[h],
                                           10 + Len(KindWord(inner[1])) + 1,
                                           Len(stdout[h]) - 1))

\* C10's case: aggregates nested two deep: the innermost is declared first,
\* the one around it next, the outermost last.
C10_Witness ==
  /\ Emitted /\ IsAggregate(call.n) /\ ~Suppressed
  /\ anonymous_serial = 2
  /\ \E a, b \in DOMAIN stdout :
       /\ a < b
       /\ RefersTo(stdout[a], anonymous_names[2])
       /\ stdout[BlockStart(stdout, a)]
            \in {CdefHeader("struct", anonymous_names[1]),
                 CdefHeader("union", anonymous_names[1])}
       /\ RefersTo(stdout[b], anonymous_names[1])
       /\ BlockStart(stdout, b) = Len(stdout) - Len(call.n.kids) - 1


====
